---------------------------- MODULE Spec2Model ----------------------------
(***************************************************************************)
(* Model of notebooks/container/container-basic.ipynb (the cells of the    *)
(* notebook, the files it writes with %%writetemplate, the images it       *)
(* builds, the containers it runs, the S3 bucket and the local download    *)
(* area) and of notebooks/parallelcluster/config/config3-simple.yaml.      *)
(*                                                                         *)
(* Strings are sequences of atoms, so that f-strings, shell expansion,     *)
(* os.path.dirname and S3 prefixes are real operations on them:            *)
(*   "data/sra-toolkit/fasterq" is <<"data","/","sra-toolkit","/",...>>.   *)
(* A template word is a sequence of parts: literal text, a shell variable  *)
(* reference ($NAME), a str.format field ({name}) or an escaped brace.     *)
(* A file is a sequence of lines, a line a sequence of words.              *)
(***************************************************************************)
EXTENDS Integers, Sequences, FiniteSets, TLC

\* ------------------------------------------------------------ strings

\* Concatenation of a sequence of sequences.
RECURSIVE Flatten(_)
Flatten(ss) == IF ss = <<>> THEN <<>> ELSE Head(ss) \o Flatten(Tail(ss))

IsPrefix(p, s) == Len(p) <= Len(s) /\ SubSeq(s, 1, Len(p)) = p

Range(s) == {s[i] : i \in DOMAIN s}

Lit(a) == [k |-> "lit", v |-> a]
Var(a) == [k |-> "var", v |-> a]
Fmt(a) == [k |-> "fmt", v |-> a]
Esc(a) == [k |-> "esc", v |-> a]

\* A word of literal text only.
W(a) == <<Lit(a)>>

\* The literal word spelling a string (a sequence of atoms).
LitWord(str) == [i \in DOMAIN str |-> Lit(str[i])]


\* A string of one atom, e.g. a package name or a file name of the notebook.
Str(a) == <<a>>

Slash == "/"

\* os.path.join / f"{a}/{b}"
Join(a, b) == a \o <<Slash>> \o b

\* os.path.dirname: the string up to, and without, its last "/" ('' if none).
dirname(fn) ==
  LET cuts == {i \in DOMAIN fn : fn[i] = Slash}
  IN  IF cuts = {} THEN <<>>
      ELSE SubSeq(fn, 1, (CHOOSE i \in cuts : \A j \in cuts : j <= i) - 1)

\* p is the directory d or lies under it.
Under(p, d) == p = d \/ IsPrefix(d \o <<Slash>>, p)

\* Every ancestor directory of p, p included (what os.makedirs creates).
Ancestors(p) ==
  {SubSeq(p, 1, i) : i \in {j \in DOMAIN p : j = Len(p) \/ p[j + 1] = Slash}}

EmptyMap == [x \in {} |-> <<>>]

\* ------------------------------------------------- %%writetemplate

\* str.format on one part: a {name} field becomes the literal text of the
\* global of that name, {{ and }} become a brace, the rest is copied.
FormatPartAll(part, g) ==
  IF part.k \in {"fmt", "var"} /\ part.v \in DOMAIN g THEN LitWord(g[part.v])
  ELSE IF part.k = "esc" THEN <<Lit(part.v)>>
  ELSE <<part>>

FormatPart(part, g) ==
  IF part.k = "fmt" THEN LitWord(g[part.v])
  ELSE IF part.k = "esc" THEN <<Lit(part.v)>>
  ELSE <<part>>

FormatWord(word, g) == Flatten([i \in DOMAIN word |-> FormatPart(word[i], g)])

\* cell.format(**globals()), line by line and word by word.
Format(cell, g) ==
  [i \in DOMAIN cell |-> [j \in DOMAIN cell[i] |-> FormatWord(cell[i][j], g)]]

\* The fields a cell names; format raises KeyError unless all are globals.
Fields(cell) ==
  UNION {UNION {{p.v : p \in {q \in Range(cell[i][j]) : q.k = "fmt"}}
                : j \in DOMAIN cell[i]} : i \in DOMAIN cell}

\* ------------------------------------------------------- the cells' text

\* %%writetemplate Dockerfile: the web server image. Of the lines echoed
\* into /root/run_apache.sh only the last is kept, the one that starts the
\* server; the lines before it (envvars, mkdir -p) start nothing that stays.
DockerfileCell ==
  << <<W("FROM"), W("ubuntu:18.04")>>,
     <<W("RUN"), W("echo"), W("/usr/sbin/apache2"), W("-D"), W("FOREGROUND"),
       W(">>"), W("/root/run_apache.sh")>>,
     <<W("EXPOSE"), W("80")>>,
     <<W("CMD"), W("/root/run_apache.sh")>> >>

\* %%writetemplate sratest.sh
SratestCellNoPackageDirectory ==
  << <<W("#!/bin/bash")>>,
     <<W("set"), W("-x")>>,
     <<W("prefetch"), <<Var("PACKAGE_NAME")>>, W("--output-directory"), W("/tmp")>>,
     <<W("fasterq-dump"), <<Var("PACKAGE_NAME")>>, W("-e"), W("8")>>,
     <<W("aws"), W("s3"), W("sync"), W("."), <<Var("SRA_OUTPUT")>> >> >>

SratestCell ==
  << <<W("#!/bin/bash")>>,
     <<W("set"), W("-x")>>,
     <<W("prefetch"), <<Var("PACKAGE_NAME")>>, W("--output-directory"), W("/tmp")>>,
     <<W("fasterq-dump"), <<Var("PACKAGE_NAME")>>, W("-e"), W("8")>>,
     <<W("aws"), W("s3"), W("sync"), W("."),
       <<Var("SRA_OUTPUT"), Lit(Slash), Var("PACKAGE_NAME")>> >> >>

SratestPath == "/usr/local/bin/sratest.sh"

\* %%writetemplate Dockerfile.ncbi
DockerfileNcbiCellWithKey ==
  << <<W("FROM"), W("ncbi/sra-tools")>>,
     <<W("ENV"), <<Lit("AWS_ACCESS_KEY_ID="), Fmt("access_key")>> >>,
     <<W("ADD"), W("sratest.sh"), W(SratestPath)>>,
     <<W("RUN"), W("echo"), <<Lit("AWS_ACCESS_KEY_ID="), Fmt("access_key")>>, W(">"),
       <<Lit("/tmp"), Lit(Slash), Lit("credentials")>> >>,
     <<W("WORKDIR"), W("/tmp")>>,
     <<W("ENTRYPOINT"), W("/bin/sh"), W(SratestPath)>> >>

DockerfileNcbiCell ==
  << <<W("FROM"), W("ncbi/sra-tools")>>,
     <<W("ADD"), W("sratest.sh"), W(SratestPath)>>,
     <<W("WORKDIR"), W("/tmp")>>,
     <<W("ENTRYPOINT"), W("/bin/sh"), W(SratestPath)>> >>

\* %%writetemplate Dockerfile.myown
DockerfileMyownCell ==
  << <<W("FROM"), W("public.ecr.aws/ubuntu/ubuntu:latest")>>,
     <<W("ENV"), <<Lit("PATH=/opt/sratoolkit/bin/:$"), Esc("{"), Lit("PATH"), Esc("}")>> >>,
     <<W("ADD"), W("sratest.sh"), W(SratestPath)>>,
     <<W("RUN"), W("printf"), W("/LIBS/GUID"), W(">"),
       <<Lit("/tmp"), Lit(Slash), Lit(".ncbi"), Lit(Slash), Lit("user-settings.mkfg")>> >>,
     <<W("ENV"), W("HOME=/tmp")>>,
     <<W("WORKDIR"), W("/tmp")>>,
     <<W("USER"), W("nobody")>>,
     <<W("ENTRYPOINT"), W(SratestPath)>> >>

\* ------------------------------------------------------------ the shell

\* Expansion of one word in an environment: $NAME becomes its value, or
\* nothing when NAME is unset.
ExpandWord(word, env) ==
  Flatten([i \in DOMAIN word |->
             IF word[i].k = "var"
             THEN (IF word[i].v \in DOMAIN env THEN env[word[i].v] ELSE <<>>)
             ELSE <<word[i].v>>])

\* An unquoted word that expands to nothing is dropped from the command.
ExpandLine(line, env) ==
  SelectSeq([j \in DOMAIN line |-> ExpandWord(line[j], env)], LAMBDA w : w /= <<>>)

\* The text of a word with no variables in it.
Text(word) == ExpandWord(word, EmptyMap)

\* Comments and builtins (set -x) issue no external command.
IsExternal(line) ==
  /\ line /= <<>>
  /\ Text(line[1]) \notin {Str("#!/bin/bash"), Str("set")}

ExternalLines(script) == SelectSeq(script, IsExternal)

\* ------------------------------------------------------- docker build

\* The position of the redirection in a RUN line, 0 if there is none.
Redirect(line) ==
  LET at == {i \in DOMAIN line : Text(line[i]) \in {Str(">"), Str(">>")}}
  IN  IF at = {} THEN 0 ELSE CHOOSE i \in at : TRUE

\* One instruction of a Dockerfile applied to the image being built.
BuildStep(img, line, ctx) ==
  LET op   == Text(line[1])
      last == Text(line[Len(line)])
      r    == Redirect(line)
  IN  IF op = Str("ADD")
      THEN [img EXCEPT !.fs = (Text(line[3]) :> ctx[Text(line[2])]) @@ @]
      ELSE IF op = Str("RUN") /\ r /= 0
      THEN LET old == IF Text(line[r]) = Str(">>") /\ last \in DOMAIN img.fs
                      THEN img.fs[last] ELSE <<>>
           IN  [img EXCEPT !.fs = (last :> Append(old, SubSeq(line, 3, r - 1))) @@ @]
      ELSE IF op = Str("WORKDIR") THEN [img EXCEPT !.workdir = last]
      ELSE IF op \in {Str("CMD"), Str("ENTRYPOINT")} THEN [img EXCEPT !.entry = last]
      ELSE img

RECURSIVE BuildFrom(_, _, _)
BuildFrom(img, df, ctx) ==
  IF df = <<>> THEN img ELSE BuildFrom(BuildStep(img, Head(df), ctx), Tail(df), ctx)

BaseImage == [fs |-> EmptyMap, entry |-> <<>>, workdir |-> Str("/")]

\* docker build -f df . : the image the Dockerfile describes.
Build(df, ctx) == BuildFrom(BaseImage, df, ctx)

\* Every file an ADD names is in the build context.
Buildable(df, ctx) ==
  \A i \in DOMAIN df : Text(df[i][1]) = Str("ADD") => Text(df[i][2]) \in DOMAIN ctx

\* ------------------------------------------------------------ the state

\* Number of container ids the daemon can hand out.
NumIds == 5

ContainerIds == 1..NumIds

\* Exit codes of the external tools: 0 is success.
ExitCodes == {0, 1}

\* The bucket name made by workshop.create_bucket_name.
BucketName == Str("sagemaker-container-ws-uuid")

\* The credentials of the boto3 session, one of two sets.
Credentials == {"A", "B"}

PackageNames == {Str("SRR000002"), Str("SRR000003"), Str("SRR000004")}

\* The code cells in order; a cell with several commands has several steps.
Program ==
  << "create_bucket", "write_Dockerfile", "build_simple_server", "run_server",
     "sleep_ps", "curl", "stop_server", "set_env", "write_sratest",
     "write_Dockerfile_ncbi", "build_ncbi", "run_SRR000002", "run_SRR000003",
     "write_Dockerfile_myown", "build_myown", "run_SRR000004", "download",
     "pip_install", "inspect", "rb", "rm", "done" >>

VARIABLES
  pc,          \* index in Program of the step the kernel is at
  fg,          \* "idle", or "running" while the step's command is running
  globals,     \* the notebook's global variables (name -> string)
  c_id,        \* the captured output lines of docker run -d
  files,       \* files of the notebook's directory (path -> content)
  dirs,        \* directories under the notebook's directory
  images,      \* the local image registry (tag -> image)
  containers,  \* the daemon's containers (id -> container)
  buckets,     \* S3 (bucket name -> key -> content)
  raised,      \* the steps whose cell raised an exception
  opened,      \* what the inspection cell read, <<>> before it
  scan         \* the reader of the cluster configuration

vars == <<pc, fg, globals, c_id, files, dirs, images, containers, buckets,
          raised, opened, scan>>

Step == Program[pc]

At(step) == pc <= Len(Program) /\ Step = step

\* The global of that name, '' when it is not defined.
G(name) == IF name \in DOMAIN globals THEN globals[name] ELSE <<>>

Put(map, key, val) == (key :> val) @@ map

Remove(map, gone) == [x \in DOMAIN map \ gone |-> map[x]]

\* --------------------------------------------------------------- cells

\* bucket = workshop.create_bucket(region, session, bucket_name, False):
\* creates the bucket and returns its name.
create_bucket(bs, name) == Put(bs, name, EmptyMap)

CreateBucket ==
  /\ At("create_bucket")
  /\ buckets' = create_bucket(buckets, BucketName)
  /\ globals' = Put(globals, "bucket", BucketName)
  /\ pc' = pc + 1
  /\ UNCHANGED <<fg, c_id, files, dirs, images, containers, raised, opened, scan>>

\* def writetemplate(line, cell): open(line, 'w+') truncates the file, then
\* cell.format(**globals()) is written, unless format raises KeyError.
writetemplate(line, cell) ==
  IF Fields(cell) \subseteq DOMAIN globals
  THEN /\ files' = Put(files, Str(line), Format(cell, globals))
       /\ UNCHANGED raised
  ELSE /\ files' = Put(files, Str(line), <<>>)
       /\ raised' = raised \cup {Step}

WriteCell(step, line, cell) ==
  /\ At(step)
  /\ writetemplate(line, cell)
  /\ pc' = pc + 1
  /\ UNCHANGED <<fg, globals, c_id, dirs, images, containers, buckets, opened, scan>>

WriteDockerfile == WriteCell("write_Dockerfile", "Dockerfile", DockerfileCell)

WriteSratest == WriteCell("write_sratest", "sratest.sh", SratestCell)

WriteDockerfileNcbi ==
  WriteCell("write_Dockerfile_ncbi", "Dockerfile.ncbi", DockerfileNcbiCell)

WriteDockerfileMyown ==
  WriteCell("write_Dockerfile_myown", "Dockerfile.myown", DockerfileMyownCell)

\* The steps that are one shell command (!cmd) with no effect at its start.
Commands ==
  {"build_simple_server", "run_server", "sleep_ps", "curl", "build_ncbi",
   "build_myown", "pip_install", "rb", "rm"}

\* The kernel starts the command of the step and waits for it.
Launch ==
  /\ pc <= Len(Program)
  /\ Step \in Commands
  /\ fg = "idle"
  /\ fg' = "running"
  /\ UNCHANGED <<pc, globals, c_id, files, dirs, images, containers, buckets,
                 raised, opened, scan>>

\* The command has ended: the kernel goes on.
Ended == fg = "running" /\ fg' = "idle" /\ pc' = pc + 1

\* !docker build -t tag -f df . : the image is stored under the tag, or the
\* build fails (a missing file, the network) and the registry is unchanged.
DockerBuild(step, tag, df) ==
  /\ At(step)
  /\ Ended
  /\ \/ /\ Str(df) \in DOMAIN files
        /\ Buildable(files[Str(df)], files)
        /\ images' = Put(images, tag, Build(files[Str(df)], files))
     \/ UNCHANGED images
  /\ UNCHANGED <<globals, c_id, files, dirs, containers, buckets, raised, opened, scan>>

BuildSimpleServer == DockerBuild("build_simple_server", "simple_server", "Dockerfile")

BuildNcbi == DockerBuild("build_ncbi", "myncbi/sra-tools", "Dockerfile.ncbi")

BuildMyown == DockerBuild("build_myown", "myownncbi/sra-tools", "Dockerfile.myown")

\* ----------------------------------------------------------- containers

HostPort == 8080

\* docker run -d is given on the web server's command line only.
DetachedAll(step) == TRUE

Detached(step) == step = "run_server"

\* -p 8080:80 is given on the web server's command line only.
Published(step) == IF step = "run_server" THEN {HostPort} ELSE {}

\* A container created from an image and started: its entrypoint script is
\* read from the image, its filesystem is a fresh copy of the image's.
NewContainer(tag, step, env) ==
  LET img == images[tag]
  IN  [image    |-> tag,
       status   |-> "running",
       detached |-> Detached(step),
       ports    |-> Published(step),
       env      |-> env,
       fs       |-> img.fs,
       workdir  |-> img.workdir,
       todo     |-> IF img.entry \in DOMAIN img.fs
                    THEN ExternalLines(img.fs[img.entry]) ELSE <<>>,
       log      |-> <<>>,
       codes    |-> <<>>,
       exit     |-> <<>>]

FreeIds == ContainerIds \ DOMAIN containers

RunningIds == {id \in DOMAIN containers : containers[id].status = "running"}

\* c_id = !docker run -d -p 8080:80 simple_server : the container is started
\* in the background and its id is the one line printed; with no such image
\* the one line is an error message.
RunServer ==
  /\ At("run_server")
  /\ Ended
  /\ IF "simple_server" \in DOMAIN images /\ FreeIds /= {}
     THEN \E id \in FreeIds :
            /\ containers' = Put(containers, id, NewContainer("simple_server", Step, EmptyMap))
            /\ c_id' = <<[kind |-> "id", id |-> id]>>
     ELSE /\ c_id' = <<[kind |-> "error", id |-> 0]>>
          /\ UNCHANGED containers
  /\ UNCHANGED <<globals, files, dirs, images, buckets, raised, opened, scan>>

\* ! sleep 3 && docker ps, ! curl http://localhost:8080, !pip install
\* bioinfokit: commands that change nothing the notebook uses.
Return ==
  /\ pc <= Len(Program)
  /\ Step \in {"sleep_ps", "curl", "pip_install"}
  /\ Ended
  /\ UNCHANGED <<globals, c_id, files, dirs, images, containers, buckets,
                 raised, opened, scan>>

\* simple_server_container.stop
stopNotCalled(c) == c

stop(c) == [c EXCEPT !.status = "exited"]

\* docker_client.containers.get(c_id[0]) then stop(): raises (IndexError,
\* NotFound) when the first captured line is not the id of a container.
StopServer ==
  /\ At("stop_server")
  /\ IF c_id /= <<>> /\ c_id[1].kind = "id" /\ c_id[1].id \in DOMAIN containers
     THEN /\ containers' = [containers EXCEPT ![c_id[1].id] = stop(@)]
          /\ UNCHANGED raised
     ELSE /\ raised' = raised \cup {Step}
          /\ UNCHANGED containers
  /\ pc' = pc + 1
  /\ UNCHANGED <<fg, globals, c_id, files, dirs, images, buckets, opened, scan>>

\* sra_prefix = 'data/sra-toolkit/fasterq'
SraPrefix == <<"data", Slash, "sra-toolkit", Slash, "fasterq">>

\* sra_output = f"s3://{bucket}/{sra_prefix}"
SraOutputNoPrefix(bucket, prefix) == <<"s3://">> \o bucket

SraOutput(bucket, prefix) == <<"s3://">> \o bucket \o <<Slash>> \o prefix

\* The cell that sets PACKAGE_NAME, sra_prefix, sra_output and the
\* credentials of the current session.
SetEnv ==
  /\ At("set_env")
  /\ \E cred \in Credentials :
       globals' = [n \in {"PACKAGE_NAME", "sra_prefix", "sra_output", "access_key",
                          "secret_key", "token"} |->
                     CASE n = "PACKAGE_NAME" -> Str("SRR000002")
                       [] n = "sra_prefix"   -> SraPrefix
                       [] n = "sra_output"   -> SraOutput(G("bucket"), SraPrefix)
                       [] n = "access_key"   -> <<"access_key", cred>>
                       [] n = "secret_key"   -> <<"secret_key", cred>>
                       [] n = "token"        -> <<"token", cred>>] @@ globals
  /\ pc' = pc + 1
  /\ UNCHANGED <<fg, c_id, files, dirs, images, containers, buckets, raised, opened, scan>>

\* --env NAME=$name ... on the docker run command line: IPython expands
\* $name to the global of that name.
RunEnv(g) ==
  [n \in {"SRA_OUTPUT", "PACKAGE_NAME", "AWS_ACCESS_KEY_ID", "AWS_SECRET_ACCESS_KEY",
          "AWS_SESSION_TOKEN"} |->
     CASE n = "SRA_OUTPUT"            -> g["sra_output"]
       [] n = "PACKAGE_NAME"          -> g["PACKAGE_NAME"]
       [] n = "AWS_ACCESS_KEY_ID"     -> g["access_key"]
       [] n = "AWS_SECRET_ACCESS_KEY" -> g["secret_key"]
       [] n = "AWS_SESSION_TOKEN"     -> g["token"]]

LeastFree == CHOOSE id \in FreeIds : \A other \in FreeIds : id <= other

\* PACKAGE_NAME = pkg, then !docker run --env ... tag:latest : the container
\* is created and started and the kernel waits for it; with no such image
\* docker run fails and no container is created. The id is never read by
\* the notebook, the daemon hands out the least unused one.
DockerRun(step, pkg, tag) ==
  /\ At(step)
  /\ fg = "idle"
  /\ fg' = "running"
  /\ globals' = Put(globals, "PACKAGE_NAME", pkg)
  /\ IF tag \in DOMAIN images /\ FreeIds /= {}
     THEN containers' = Put(containers, LeastFree, NewContainer(tag, step, RunEnv(globals')))
     ELSE UNCHANGED containers
  /\ UNCHANGED <<pc, c_id, files, dirs, images, buckets, raised, opened, scan>>

RunNcbi2 == DockerRun("run_SRR000002", Str("SRR000002"), "myncbi/sra-tools")

RunNcbi3 == DockerRun("run_SRR000003", Str("SRR000003"), "myncbi/sra-tools")

RunMyown4 == DockerRun("run_SRR000004", Str("SRR000004"), "myownncbi/sra-tools")

\* docker run returns when the container it is attached to has exited.
DockerRunReturn ==
  /\ pc <= Len(Program)
  /\ Step \in {"run_SRR000002", "run_SRR000003", "run_SRR000004"}
  /\ Ended
  /\ \A id \in RunningIds : containers[id].detached
  /\ UNCHANGED <<globals, c_id, files, dirs, images, containers, buckets,
                 raised, opened, scan>>

\* ------------------------------------------- the tools in a container

\* The content of a file a tool produces for a package.
Data(kind, pkg) == << <<W(kind), LitWord(pkg)>> >>

\* apache2 -D FOREGROUND serves until the container is stopped.
IsDaemon(cmd) == cmd[1] = Str("/usr/sbin/apache2")

IsSync(cmd) ==
  Len(cmd) = 5 /\ cmd[1] = Str("aws") /\ cmd[2] = Str("s3") /\ cmd[3] = Str("sync")

\* s3://bucket/prefix
IsS3Url(t) == Len(t) >= 2 /\ t[1] = "s3://" /\ (Len(t) >= 3 => t[3] = Slash)

UrlBucket(t) == <<t[2]>>

UrlPrefix(t) == SubSeq(t, 4, Len(t))

\* The files under the directory, by their path relative to it.
FilesUnder(fs, dir) == {p \in DOMAIN fs : IsPrefix(dir \o <<Slash>>, p)}

Relative(p, dir) == SubSeq(p, Len(dir) + 2, Len(p))

KeyOf(prefix, rel) == IF prefix = <<>> THEN rel ELSE Join(prefix, rel)

\* What a tool needs to end with exit code 0.
CanSucceed(c, cmd) ==
  CASE cmd[1] = Str("prefetch")     -> Len(cmd) >= 4 /\ cmd[2] \in PackageNames
    [] cmd[1] = Str("fasterq-dump") -> Len(cmd) >= 2 /\ cmd[2] \in PackageNames
    [] IsSync(cmd)                  -> /\ cmd[4] = Str(".")
                                       /\ IsS3Url(cmd[5])
                                       /\ UrlBucket(cmd[5]) \in DOMAIN buckets
    [] OTHER                        -> FALSE

\* prefetch P --output-directory D writes D/P/P.sra; fasterq-dump P writes
\* P.fastq in the working directory; a failed tool writes nothing.
ToolFiles(c, cmd, rc) ==
  IF rc /= 0 THEN c.fs
  ELSE CASE cmd[1] = Str("prefetch") ->
              Put(c.fs, Join(Join(cmd[4], cmd[2]), cmd[2] \o <<".sra">>), Data("sra", cmd[2]))
         [] cmd[1] = Str("fasterq-dump") ->
              Put(c.fs, Join(c.workdir, cmd[2] \o <<".fastq">>), Data("fastq", cmd[2]))
         [] OTHER -> c.fs

\* aws s3 sync . s3://bucket/prefix copies every file under the working
\* directory to prefix/<relative path>; it deletes nothing.
SyncObjects(objs, fs, dir, prefix) ==
  LET src  == FilesUnder(fs, dir)
      keys == {KeyOf(prefix, Relative(p, dir)) : p \in src}
  IN  [k \in DOMAIN objs \cup keys |->
         IF k \in keys
         THEN fs[CHOOSE p \in src : KeyOf(prefix, Relative(p, dir)) = k]
         ELSE objs[k]]

ToolBuckets(c, cmd, rc) ==
  IF rc = 0 /\ IsSync(cmd)
  THEN [buckets EXCEPT ![UrlBucket(cmd[5])] =
          SyncObjects(@, c.fs, c.workdir, UrlPrefix(cmd[5]))]
  ELSE buckets

\* The shell goes on to the next command whatever the exit code (set -e is
\* not given).
NextCommandsErrexit(todo, rc) == IF rc = 0 THEN Tail(todo) ELSE <<>>

NextCommands(todo, rc) == Tail(todo)

\* The exit code of a script is that of the last command it ran.
ExitStatusAnyFailure(codes) == IF \E i \in DOMAIN codes : codes[i] /= 0 THEN 1 ELSE 0

ExitStatus(codes) == codes[Len(codes)]

\* The entrypoint script of a running container issues its next command;
\* the container exits with the script.
ContainerStep(id) ==
  LET c   == containers[id]
      cmd == ExpandLine(Head(c.todo), c.env)
  IN  /\ c.status = "running"
      /\ c.todo /= <<>>
      /\ ~IsDaemon(cmd)
      /\ \E rc \in ExitCodes :
           /\ rc = 0 => CanSucceed(c, cmd)
           /\ LET rest  == NextCommands(c.todo, rc)
                  codes == Append(c.codes, rc)
              IN  containers' =
                    [containers EXCEPT ![id] =
                       [c EXCEPT !.fs     = ToolFiles(c, cmd, rc),
                                 !.todo   = rest,
                                 !.log    = Append(@, cmd),
                                 !.codes  = codes,
                                 !.status = IF rest = <<>> THEN "exited" ELSE "running",
                                 !.exit   = IF rest = <<>> THEN <<ExitStatus(codes)>> ELSE <<>>]]
           /\ buckets' = ToolBuckets(c, cmd, rc)
      /\ UNCHANGED <<pc, fg, globals, c_id, files, dirs, images, raised, opened, scan>>

Container == \E id \in DOMAIN containers : ContainerStep(id)

\* ------------------------------------------------------ the later cells

\* The atoms of the keys in byte order; no atom is a prefix of another, so
\* comparing keys atom by atom is comparing them as byte strings.
AtomOrder ==
  <<".fastq", ".ncbi", ".sra", "/", "SRR000002", "SRR000003", "SRR000004", "data",
    "fasterq", "sra-toolkit", "user-settings.mkfg">>

Rank(a) == CHOOSE i \in DOMAIN AtomOrder : AtomOrder[i] = a

RECURSIVE KeyBefore(_, _)
KeyBefore(a, b) ==
  IF a = <<>> THEN b /= <<>>
  ELSE IF b = <<>> THEN FALSE
  ELSE IF Head(a) = Head(b) THEN KeyBefore(Tail(a), Tail(b))
  ELSE Rank(Head(a)) < Rank(Head(b))

\* The keys in the order list_objects returns them: ascending byte order.
RECURSIVE ListingOrder(_)
ListingOrder(S) ==
  IF S = {} THEN <<>>
  ELSE LET x == CHOOSE y \in S : \A z \in S \ {y} : KeyBefore(y, z)
       IN  <<x>> \o ListingOrder(S \ {x})

\* s3_client.list_objects(Bucket=bucket, Prefix=prefix)['Contents']
list_objects(objs, prefix) == {k \in DOMAIN objs : IsPrefix(prefix, k)}

\* os.path.exists
exists(fs, p) == p \in fs.dirs \/ p \in DOMAIN fs.files

\* if not os.path.exists(p):
NeedsMakedirsAlways(fs, p) == TRUE

NeedsMakedirs(fs, p) == ~exists(fs, p)

\* os.makedirs(p) creates p and its missing ancestors.
makedirs(fs, p) == [fs EXCEPT !.dirs = @ \cup Ancestors(p)]

\* os.makedirs raises on '', on an existing path and below a file.
MakedirsRaises(fs, p) ==
  p = <<>> \/ exists(fs, p) \/ Ancestors(p) \cap DOMAIN fs.files /= {}

\* One turn of the loop of the download cell on key fn: the parent
\* directory is made when it does not exist, then the object is downloaded
\* to the relative path fn, which fails below a file or onto a directory.
DownloadOne(fs, fn, objs) ==
  LET p    == dirname(fn)
      need == NeedsMakedirs(fs, p)
      fs1  == IF need THEN makedirs(fs, p) ELSE fs
  IN  IF fs.err THEN fs
      ELSE IF need /\ MakedirsRaises(fs, p) THEN [fs EXCEPT !.err = TRUE]
      ELSE IF p \notin fs1.dirs \/ fn \in fs1.dirs THEN [fs1 EXCEPT !.err = TRUE]
      ELSE [fs1 EXCEPT !.files = Put(@, fn, objs[fn])]

RECURSIVE DownloadAll(_, _, _)
DownloadAll(fs, keys, objs) ==
  IF keys = <<>> THEN fs
  ELSE DownloadAll(DownloadOne(fs, Head(keys), objs), Tail(keys), objs)

\* The download cell: every listed key is downloaded; listing a bucket that
\* does not exist raises, and so does objs['Contents'] when nothing is listed.
Download ==
  /\ At("download")
  /\ LET listed == IF G("bucket") \in DOMAIN buckets
                   THEN list_objects(buckets[G("bucket")], G("sra_prefix")) ELSE {}
         got    == DownloadAll([files |-> files, dirs |-> dirs, err |-> FALSE],
                               ListingOrder(listed), buckets[G("bucket")])
     IN  IF listed = {}
         THEN /\ raised' = raised \cup {Step}
              /\ UNCHANGED <<files, dirs>>
         ELSE /\ files' = got.files
              /\ dirs' = got.dirs
              /\ raised' = IF got.err THEN raised \cup {Step} ELSE raised
  /\ pc' = pc + 1
  /\ UNCHANGED <<fg, globals, c_id, images, containers, buckets, opened, scan>>

\* f"{sra_prefix}/{PACKAGE_NAME}/{PACKAGE_NAME}.fastq"
FastqPathFlat(prefix, pkg) == Join(prefix, pkg \o <<".fastq">>)

FastqPath(prefix, pkg) == Join(Join(prefix, pkg), pkg \o <<".fastq">>)

\* The inspection cell reads the fastq file of the current PACKAGE_NAME.
Inspect ==
  /\ At("inspect")
  /\ LET fn == FastqPath(G("sra_prefix"), G("PACKAGE_NAME"))
     IN  IF fn \in DOMAIN files
         THEN opened' = files[fn] /\ UNCHANGED raised
         ELSE raised' = raised \cup {Step} /\ UNCHANGED opened
  /\ pc' = pc + 1
  /\ UNCHANGED <<fg, globals, c_id, files, dirs, images, containers, buckets, scan>>

\* aws s3 rb s3://bucket --force deletes every object, then the bucket.
rbNoForce(bs, name) == IF bs[name] = EmptyMap THEN Remove(bs, {name}) ELSE bs

rb(bs, name) == Remove(bs, {name})

\* !aws s3 rb s3://$bucket --force
RemoveBucket ==
  /\ At("rb")
  /\ Ended
  /\ buckets' = IF G("bucket") \in DOMAIN buckets THEN rb(buckets, G("bucket")) ELSE buckets
  /\ UNCHANGED <<globals, c_id, files, dirs, images, containers, raised, opened, scan>>

\* !rm -rf $sra_prefix
RemoveLocal ==
  /\ At("rm")
  /\ Ended
  /\ files' = Remove(files, {p \in DOMAIN files : Under(p, G("sra_prefix"))})
  /\ dirs' = {d \in dirs : ~Under(d, G("sra_prefix"))}
  /\ UNCHANGED <<globals, c_id, images, containers, buckets, raised, opened, scan>>

\* --------------------------------------------- the cluster configuration

\* config3-simple.yaml, line by line: two spaces of indentation, the "- " of
\* a list item, a key, its colon and a value are one token each.
ConfigLines ==
  <<
     <<"Region", ":", "${REGION}">>,
     <<"Image", ":">>,
     <<"  ", "Os", ":", "alinux2">>,
     <<"HeadNode", ":">>,
     <<"  ", "InstanceType", ":", "c5.xlarge">>,
     <<"  ", "Networking", ":">>,
     <<"  ", "  ", "SubnetId", ":", "${SUBNET_ID}">>,
     <<"  ", "Ssh", ":">>,
     <<"  ", "  ", "KeyName", ":", "${KEY_NAME}">>,
     <<"  ", "Iam", ":">>,
     <<"  ", "  ", "S3Access", ":">>,
     <<"  ", "  ", "  ", "-", "BucketName", ":", "${BUCKET_NAME}">>,
     <<"  ", "  ", "  ", "  ", "EnableWriteAccess", ":", "true">>,
     <<"  ", "  ", "AdditionalIamPolicies", ":">>,
     <<"  ", "  ", "  ", "-", "Policy", ":", "arn:aws:iam::aws:policy/SecretsManagerReadWrite">>,
     <<"  ", "CustomActions", ":">>,
     <<"  ", "  ", "OnNodeConfigured", ":">>,
     <<"  ", "  ", "  ", "Script", ":", "${POST_INSTALL_SCRIPT_LOCATION}">>,
     <<"  ", "  ", "  ", "Args", ":">>,
     <<"  ", "  ", "  ", "  ", "-", "${POST_INSTALL_SCRIPT_ARGS_1}">>,
     <<"  ", "  ", "  ", "  ", "-", "${POST_INSTALL_SCRIPT_ARGS_2}">>,
     <<"  ", "  ", "  ", "  ", "-", "${POST_INSTALL_SCRIPT_ARGS_3}">>,
     <<"  ", "  ", "  ", "  ", "-", "${POST_INSTALL_SCRIPT_ARGS_4}">>,
     <<"  ", "  ", "  ", "  ", "-", "${POST_INSTALL_SCRIPT_ARGS_5}">>,
     <<"  ", "  ", "  ", "  ", "-", "${POST_INSTALL_SCRIPT_ARGS_6}">>,
     <<"  ", "  ", "  ", "  ", "-", "${POST_INSTALL_SCRIPT_ARGS_7}">>,
     <<"  ", "  ", "  ", "  ", "-", "${POST_INSTALL_SCRIPT_ARGS_8}">>,
     <<"Scheduling", ":">>,
     <<"  ", "Scheduler", ":", "slurm">>,
     <<"  ", "SlurmQueues", ":">>,
     <<"  ", "-", "Name", ":", "q1">>,
     <<"  ", "  ", "ComputeResources", ":">>,
     <<"  ", "  ", "-", "Name", ":", "c5n2xlarge">>,
     <<"  ", "  ", "  ", "InstanceType", ":", "c5n.2xlarge">>,
     <<"  ", "  ", "  ", "MinCount", ":", "0">>,
     <<"  ", "  ", "  ", "MaxCount", ":", "10">>,
     <<"  ", "  ", "Networking", ":">>,
     <<"  ", "  ", "  ", "SubnetIds", ":">>,
     <<"  ", "  ", "  ", "-", "${SUBNET_ID}">>,
     <<"  ", "  ", "Iam", ":">>,
     <<"  ", "  ", "  ", "S3Access", ":">>,
     <<"  ", "  ", "  ", "  ", "-", "BucketName", ":", "${BUCKET_NAME}">>,
     <<"  ", "  ", "  ", "  ", "  ", "EnableWriteAccess", ":", "true">>,
     <<"SharedStorage", ":">>,
     <<"  ", "-", "MountDir", ":", "/shared">>,
     <<"  ", "  ", "Name", ":", "shared">>,
     <<"  ", "  ", "StorageType", ":", "Ebs">>,
     <<"  ", "  ", "EbsSettings", ":">>,
     <<"  ", "  ", "  ", "VolumeType", ":", "gp2">>,
     <<"  ", "  ", "  ", "Size", ":", "50">>
  >>

Indent == "  "

\* A key is at the top level when its line is neither indented nor an item.
TopLevelAnyDepth(indent, dash) == ~dash

TopLevel(indent, dash) == indent = 0 /\ ~dash

ScanStart == [line |-> 1, col |-> 1, indent |-> 0, dash |-> FALSE, keys |-> <<>>]

ScanDone == scan.line > Len(ConfigLines)

\* The reader takes the next token of the document; at the end of a line it
\* goes to the next line. A token followed by a colon is a key.
ScanToken ==
  /\ ~ScanDone
  /\ LET toks == ConfigLines[scan.line]
         tok  == toks[scan.col]
     IN  scan' =
           IF scan.col > Len(toks)
           THEN [scan EXCEPT !.line = @ + 1, !.col = 1, !.indent = 0, !.dash = FALSE]
           ELSE IF tok = Indent THEN [scan EXCEPT !.col = @ + 1, !.indent = @ + 1]
           ELSE IF tok = "-" THEN [scan EXCEPT !.col = @ + 1, !.dash = TRUE]
           ELSE IF /\ scan.col < Len(toks)
                   /\ toks[scan.col + 1] = ":"
                   /\ TopLevel(scan.indent, scan.dash)
           THEN [scan EXCEPT !.col = @ + 1, !.keys = Append(@, tok)]
           ELSE [scan EXCEPT !.col = @ + 1]
  /\ UNCHANGED <<pc, fg, globals, c_id, files, dirs, images, containers, buckets,
                 raised, opened>>

\* ------------------------------------------------------ specifications

Init ==
  /\ pc = 1
  /\ fg = "idle"
  /\ globals = EmptyMap
  /\ c_id = <<>>
  /\ files = EmptyMap
  /\ dirs = {}
  /\ images = EmptyMap
  /\ containers = EmptyMap
  /\ buckets = EmptyMap
  /\ raised = {}
  /\ opened = <<>>
  /\ scan = ScanStart

Next ==
  \/ CreateBucket
  \/ WriteDockerfile
  \/ Launch
  \/ BuildSimpleServer
  \/ RunServer
  \/ Return
  \/ StopServer
  \/ SetEnv
  \/ WriteSratest
  \/ WriteDockerfileNcbi
  \/ BuildNcbi
  \/ RunNcbi2
  \/ RunNcbi3
  \/ WriteDockerfileMyown
  \/ BuildMyown
  \/ RunMyown4
  \/ DockerRunReturn
  \/ Container
  \/ Download
  \/ Inspect
  \/ RemoveBucket
  \/ RemoveLocal

\* The notebook, its cells executed in order.
Spec == Init /\ [][Next]_vars

\* The reading of the cluster configuration.
SpecConfig == Init /\ [][ScanToken]_vars

\* -------------------------------------------------------------- claims

Idx(step) == CHOOSE i \in DOMAIN Program : Program[i] = step

After(step) == pc > Idx(step)

SraImages == {"myncbi/sra-tools", "myownncbi/sra-tools"}

\* The containers whose entrypoint is sratest.sh.
SraIds == {id \in DOMAIN containers : containers[id].image \in SraImages}

\* The name of the tool a command line runs.
ToolName(cmd) == IF IsSync(cmd) THEN "aws s3 sync" ELSE cmd[1][1]

ToolNames(log) == [i \in DOMAIN log |-> ToolName(log[i])]

ThreeSteps == <<"prefetch", "fasterq-dump", "aws s3 sync">>

Pkg(id) == containers[id].env["PACKAGE_NAME"]

\* C1: in every run of sratest.sh the commands issued so far are the first
\* ones of prefetch, fasterq-dump, aws s3 sync, one exit code is taken per
\* command, and a run that has ended has issued exactly these three, once
\* each and in this order, whatever their exit codes.
C1_CommandsInOrder ==
  \A id \in SraIds :
    LET c == containers[id]
    IN  /\ IsPrefix(ToolNames(c.log), ThreeSteps)
        /\ Len(c.codes) = Len(c.log)
        /\ c.status = "exited" => ToolNames(c.log) = ThreeSteps

\* A run has ended in which prefetch and fasterq-dump both failed.
C1_Witness ==
  \E id \in SraIds :
    /\ containers[id].status = "exited"
    /\ Len(containers[id].codes) = 3
    /\ containers[id].codes[1] /= 0
    /\ containers[id].codes[2] /= 0

\* s3://{bucket}/data/sra-toolkit/fasterq/{pkg}, spelled out.
OutputUrl(pkg) ==
  <<"s3://", BucketName[1], "/", "data", "/", "sra-toolkit", "/", "fasterq", "/">> \o pkg

OutputKey(pkg) == <<"data", "/", "sra-toolkit", "/", "fasterq", "/">> \o pkg

\* C2: the sync target of every run is s3://{bucket}/data/sra-toolkit/
\* fasterq/P for the run's package P and the bucket created at the start;
\* every object of the bucket lies under that prefix for the package of a
\* run whose sync succeeded, P.fastq is stored there when fasterq-dump and
\* sync succeeded, and no other bucket is written.
C2_OutputLocation ==
  /\ DOMAIN buckets \subseteq {BucketName}
  /\ \A id \in SraIds :
       LET c == containers[id]
       IN  /\ \A i \in DOMAIN c.log : IsSync(c.log[i]) => c.log[i][5] = OutputUrl(Pkg(id))
           /\ Len(c.codes) = 3 /\ c.codes[2] = 0 /\ c.codes[3] = 0
                /\ BucketName \in DOMAIN buckets
                => Join(OutputKey(Pkg(id)), Pkg(id) \o <<".fastq">>)
                     \in DOMAIN buckets[BucketName]
  /\ \A b \in DOMAIN buckets : \A k \in DOMAIN buckets[b] :
       \E id \in SraIds :
         /\ Len(containers[id].codes) = 3
         /\ containers[id].codes[3] = 0
         /\ IsPrefix(OutputKey(Pkg(id)) \o <<"/">>, k)

\* The fastq of SRR000003 is in the bucket under its package's prefix.
C2_Witness ==
  /\ BucketName \in DOMAIN buckets
  /\ <<"data", "/", "sra-toolkit", "/", "fasterq", "/", "SRR000003", "/", "SRR000003", ".fastq">>
       \in DOMAIN buckets[BucketName]

\* No literal text of the content is a package name.
NoPackageIn(content) ==
  \A i \in DOMAIN content : \A j \in DOMAIN content[i] : \A k \in DOMAIN content[i][j] :
    content[i][j][k].k = "lit" => Str(content[i][j][k].v) \notin PackageNames

\* C3: every command a run issues names the package of the PACKAGE_NAME
\* variable of that docker run, and neither the sratest.sh written by
\* writetemplate nor any file of a built image holds a package name.
C3_PackageFromEnvironment ==
  /\ \A id \in SraIds :
       LET c == containers[id]
       IN  \A i \in DOMAIN c.log :
             IF IsSync(c.log[i])
             THEN c.log[i][5][Len(c.log[i][5])] = Pkg(id)[1]
             ELSE c.log[i][2] = Pkg(id)
  /\ Str("sratest.sh") \in DOMAIN files => NoPackageIn(files[Str("sratest.sh")])
  /\ \A t \in DOMAIN images : \A f \in DOMAIN images[t].fs : NoPackageIn(images[t].fs[f])

\* The image built while PACKAGE_NAME was SRR000002 has run, not rebuilt,
\* with PACKAGE_NAME=SRR000003 and has processed SRR000003.
C3_Witness ==
  \E id \in SraIds :
    /\ containers[id].image = "myncbi/sra-tools"
    /\ Pkg(id) = Str("SRR000003")
    /\ containers[id].status = "exited"
    /\ Len(containers[id].log) = 3
    /\ containers[id].log[2] = <<Str("fasterq-dump"), Str("SRR000003"), Str("-e"), Str("8")>>

Ended3(id) == containers[id].status = "exited" /\ Len(containers[id].codes) = 3

\* C4 as claimed: a run in which any of the three steps exits non-zero
\* ends with a non-zero exit code.
C4_AnyFailureFailsTheRun ==
  \A id \in SraIds :
    Ended3(id) /\ (\E i \in 1..3 : containers[id].codes[i] /= 0)
      => containers[id].exit /= <<0>>

\* C4 as amended: no step's failure is caught, the script goes on, and the
\* run ends with the exit code of its last step, aws s3 sync: it ends
\* non-zero exactly when sync exits non-zero.
C4_ExitCodeIsSyncs ==
  \A id \in SraIds :
    LET c == containers[id]
    IN  /\ c.status = "running" => c.exit = <<>>
        /\ c.status = "exited" =>
             /\ Len(c.codes) = 3
             /\ ToolName(c.log[3]) = "aws s3 sync"
             /\ c.exit = <<c.codes[3]>>

\* A run in which prefetch and fasterq-dump failed has ended with code 0.
C4_Witness ==
  \E id \in SraIds :
    /\ Ended3(id)
    /\ containers[id].codes = <<1, 1, 0>>
    /\ containers[id].exit = <<0>>

\* What the notebook has started and is running: the command the kernel
\* waits for (with the container it is attached to, if any) and the
\* containers running in the background.
Running ==
  (IF fg = "running" THEN {<<"command", 0>>} ELSE {})
    \cup {<<"container", id>> : id \in {i \in RunningIds : containers[i].detached}}

\* C5 as claimed: at most one process or container is running.
C5_AtMostOneRunning == Cardinality(Running) <= 1

\* C5 as amended: the only thing that runs in the background is the web
\* server container, from docker run -d until the next cell stops it; with
\* that exception at most one command is running, and an attached container
\* runs only while the kernel waits for its docker run.
C5_OnlyTheServerInBackground ==
  /\ \A id \in RunningIds :
       IF containers[id].detached
       THEN /\ containers[id].image = "simple_server"
            /\ pc > Idx("run_server")
            /\ pc <= Idx("stop_server")
       ELSE /\ fg = "running"
            /\ Step \in {"run_SRR000002", "run_SRR000003", "run_SRR000004"}
  /\ Cardinality(RunningIds) <= 1
  /\ Cardinality(Running) <= 2
  /\ After("stop_server") => Cardinality(Running) <= 1

\* curl is running while the web server container is running.
C5_Witness ==
  /\ At("curl")
  /\ fg = "running"
  /\ \E id \in RunningIds : containers[id].image = "simple_server"

TopLevelKeys == <<"Region", "Image", "HeadNode", "Scheduling", "SharedStorage">>

\* C6: the top-level keys of the configuration are Region, Image, HeadNode,
\* Scheduling and SharedStorage, each once, and no other.
C6_TopLevelKeys ==
  /\ IsPrefix(scan.keys, TopLevelKeys)
  /\ ScanDone => scan.keys = TopLevelKeys

\* The whole document has been read.
C6_Witness == ScanDone /\ Len(scan.keys) = 5

ServerIds == {id \in DOMAIN containers : containers[id].image = "simple_server"}

\* C7: c_id[0] is the id of the web server container, the only container
\* publishing host port 8080; once the next cell has run, that container is
\* not running and the port is free, and every later cell starts with no
\* container running.
C7_ServerStopped ==
  /\ \A id \in ServerIds :
       /\ c_id = <<[kind |-> "id", id |-> id]>>
       /\ containers[id].detached
       /\ containers[id].ports = {HostPort}
  /\ \A id \in DOMAIN containers \ ServerIds : containers[id].ports = {}
  /\ After("stop_server") =>
       /\ ServerIds \cap RunningIds = {}
       /\ \A id \in RunningIds : HostPort \notin containers[id].ports
       /\ fg = "idle" => RunningIds = {}

\* The web server was started and stopped, and the download cell is next.
C7_Witness ==
  /\ At("download")
  /\ "stop_server" \notin raised
  /\ \E id \in ServerIds : containers[id].status = "exited"

Listed == list_objects(buckets[BucketName], SraPrefix)

\* C8: once the download cell has run, and until the cleanup, every key
\* listed under data/sra-toolkit/fasterq is a local file holding the
\* object, its parent directory and the directories above it exist, and the
\* cell has raised only if nothing was listed.
C8_Downloaded ==
  After("download") /\ pc <= Idx("rb") =>
    /\ ("download" \in raised) = (Listed = {})
    /\ \A k \in Listed :
         /\ k \in DOMAIN files
         /\ files[k] = buckets[BucketName][k]
         /\ dirname(k) \in dirs
         /\ Ancestors(dirname(k)) \subseteq dirs
         /\ k \notin dirs

\* Two objects of one directory and one of a directory below it have been
\* downloaded.
C8_Witness ==
  /\ After("download")
  /\ pc <= Idx("rb")
  /\ {Join(OutputKey(Str("SRR000002")), <<"SRR000002", ".fastq">>),
      Join(OutputKey(Str("SRR000002")), <<"SRR000002", "/", "SRR000002", ".sra">>),
      Join(OutputKey(Str("SRR000004")), <<".ncbi", "/", "user-settings.mkfg">>),
      Join(OutputKey(Str("SRR000004")), <<"SRR000004", ".fastq">>)} \subseteq DOMAIN files

\* Every step of every container run has succeeded.
AllStepsSucceeded ==
  /\ Cardinality(SraIds) = 3
  /\ \A id \in SraIds : containers[id].codes = <<0, 0, 0>>

\* C9: when every container step has succeeded, the file the inspection
\* cell opens exists when the cell runs: it is SRR000004.fastq, the
\* fasterq-dump output of the run of myownncbi/sra-tools, and the cell
\* reads it without raising.
C9_InspectedFileExists ==
  AllStepsSucceeded =>
    /\ At("inspect") =>
         /\ G("PACKAGE_NAME") = Str("SRR000004")
         /\ \E id \in SraIds :
              /\ containers[id].image = "myownncbi/sra-tools"
              /\ Pkg(id) = Str("SRR000004")
              /\ \A other \in SraIds : other <= id
         /\ <<"data", "/", "sra-toolkit", "/", "fasterq", "/", "SRR000004", "/",
              "SRR000004", ".fastq">> \in DOMAIN files
         /\ files[<<"data", "/", "sra-toolkit", "/", "fasterq", "/", "SRR000004", "/",
                    "SRR000004", ".fastq">>] = Data("fastq", Str("SRR000004"))
    /\ After("inspect") =>
         /\ "inspect" \notin raised
         /\ opened = Data("fastq", Str("SRR000004"))

\* The inspection cell has run after three successful container runs.
C9_Witness == AllStepsSucceeded /\ After("inspect") /\ opened /= <<>>

Generated == {Str("Dockerfile"), Str("Dockerfile.ncbi"), Str("Dockerfile.myown"),
              Str("sratest.sh")}

\* C10: after the Cleanup cell the bucket created at the start does not
\* exist, so none of its objects remain, and no file or directory is left
\* at or under data/sra-toolkit/fasterq; the two commands of the cell leave
\* the generated files and the images as they were.
C10_Cleanup ==
  /\ [](At("done") =>
          /\ BucketName \notin DOMAIN buckets
          /\ \A p \in DOMAIN files \cup dirs : ~Under(p, SraPrefix)
          /\ Generated \subseteq DOMAIN files)
  /\ [][At("rb") \/ At("rm") =>
          /\ images' = images
          /\ \A f \in Generated : f \in DOMAIN files' /\ files'[f] = files[f]]_vars

\* The cleanup has run after a download that listed objects.
C10_Witness ==
  /\ At("done")
  /\ "download" \notin raised
  /\ images /= EmptyMap

CredentialNames == {"access_key", "secret_key", "token"}

CredentialVariables == {"AWS_ACCESS_KEY_ID", "AWS_SECRET_ACCESS_KEY", "AWS_SESSION_TOKEN"}

\* No literal text of the content is a credential.
NoCredentialIn(content) ==
  \A i \in DOMAIN content : \A j \in DOMAIN content[i] : \A k \in DOMAIN content[i][j] :
    content[i][j][k].v \notin Credentials

\* No atom of the string is a credential.
NoCredentialAtom(str) == \A i \in DOMAIN str : str[i] \notin Credentials

\* The cell a generated file is written from.
CellOf(f) ==
  CASE f = Str("Dockerfile")       -> DockerfileCell
    [] f = Str("sratest.sh")       -> SratestCell
    [] f = Str("Dockerfile.ncbi")  -> DockerfileNcbiCell
    [] f = Str("Dockerfile.myown") -> DockerfileMyownCell

\* The globals with the credentials of another session.
WithCredentials(g, cred) ==
  [n \in DOMAIN g |->
     IF n \in CredentialNames THEN <<n, cred>> ELSE g[n]]

ObjectsKept ==
  BucketName \in DOMAIN buckets /\ ~At("rb") =>
    /\ BucketName \in DOMAIN buckets'
    /\ \A k \in DOMAIN buckets[BucketName] :
         /\ k \in DOMAIN buckets'[BucketName]
         /\ buckets'[BucketName][k] = buckets[BucketName][k]
    /\ \A k \in DOMAIN buckets'[BucketName] \ DOMAIN buckets[BucketName] :
         \E id \in SraIds \cap RunningIds :
           /\ IsPrefix(OutputKey(Pkg(id)) \o <<"/">>, k)
           /\ \A other \in SraIds \ {id} : Pkg(other) /= Pkg(id)

\* C12: while the bucket exists and until the Cleanup cell removes it,
\* every step keeps every object of the bucket with its content, and the
\* objects a step adds lie under data/sra-toolkit/fasterq/P/ for the
\* package P of the container run that is running.
C12_ObjectsOnlyGrow == [][ObjectsKept]_vars

\* The bucket holds the objects of the run for SRR000002 next to those of
\* the later runs for SRR000003 and SRR000004.
C12_Witness ==
  /\ BucketName \in DOMAIN buckets
  /\ {Join(OutputKey(Str("SRR000002")), <<"SRR000002", ".fastq">>),
      Join(OutputKey(Str("SRR000002")), <<"SRR000002", "/", "SRR000002", ".sra">>),
      Join(OutputKey(Str("SRR000003")), <<"SRR000003", ".fastq">>),
      Join(OutputKey(Str("SRR000004")), <<"SRR000004", ".fastq">>)}
       \subseteq DOMAIN buckets[BucketName]

==========================================================================
